---- MODULE Spec2Model ----
(***************************************************************************)
(* Conversation controller (App / handleSend), backend call (sendMessage)  *)
(* and trace viewer (LogViewer) of the Biomni web front end.               *)
(*                                                                         *)
(* Strings are sequences of one-character strings so that String.trim()    *)
(* is computed.  A JavaScript value is a record [t, v]: t is its type tag  *)
(* and v the characters of a string or the elements of an array.           *)
(*                                                                         *)
(* The variables input, messages and isLoading are the state the last      *)
(* committed render of App holds, which is what the event handlers of that *)
(* render have closed over.  Updates made inside a DOM event handler       *)
(* (submit, change, click) are committed by React before the next event    *)
(* or promise continuation runs, so such a handler and its commit are one  *)
(* step.  Updates made by the continuation of handleSend after the await   *)
(* are queued (pendingUpdates) and committed together by a later render.   *)
(***************************************************************************)
EXTENDS FiniteSets, Integers, Sequences, TLC

\* Accepted submits explored.
MaxSubmits == 2

\* Longest trace explored for the LogViewer on its own.
MaxSteps == 3

Whitespace == {" "}

\* Values the text field is set to (e.target.value).
Inputs ==
  { <<>>, <<" ">>, <<" ", " ">>, <<"a">>, <<" ", "a", " ">> }

Undefined == [t |-> "undefined", v |-> <<>>]

Str(s) == [t |-> "string", v |-> s]

Arr(a) == [t |-> "array", v |-> a]

\* JavaScript truthiness of a string, an array or undefined.
Truthy(x) == x.t = "array" \/ (x.t = "string" /\ x.v # <<>>)

RECURSIVE TrimStart(_)
TrimStart(s) ==
  IF s # <<>> /\ Head(s) \in Whitespace THEN TrimStart(Tail(s)) ELSE s

RECURSIVE TrimEnd(_)
TrimEnd(s) ==
  IF s # <<>> /\ s[Len(s)] \in Whitespace
    THEN TrimEnd(SubSeq(s, 1, Len(s) - 1))
    ELSE s

\* String.prototype.trim
Trim(s) == TrimEnd(TrimStart(s))

\* Bodies of a 2xx reply: two of the declared shape, one object without the
\* fields (reading response and logs of it yields undefined).
Bodies ==
  { [response |-> Str(<<"o", "k">>), logs |-> Arr(<<>>)],
    [response |-> Str(<<"o", "k">>), logs |-> Arr(<<"s1", "s2">>)],
    [response |-> Undefined, logs |-> Undefined] }

\* Trace steps (LogStep records), told apart by name only.
StepValues == {"s1", "s2", "s3"}

\* The values a logs field is drawn from for the LogViewer on its own:
\* undefined and every array of at most MaxSteps steps.
AllLogs ==
  {Undefined} \cup
    UNION { {Arr(a) : a \in [1..n -> StepValues]} : n \in 0..MaxSteps }

\* The shape ChatResponse declares.
IsChatResponse(data) == data.response.t = "string" /\ data.logs.t = "array"

\* Reasons axios.post rejects.
Failures == {"unreachable", "non2xx"}

NoData == [response |-> Undefined, logs |-> Undefined]

ErrorText ==
  << "E", "r", "r", "o", "r", ":", " ", "F", "a", "i", "l", "e", "d", " ",
     "t", "o", " ", "c", "o", "n", "n", "e", "c", "t", " ", "t", "o", " ",
     "B", "i", "o", "m", "n", "i", " ", "b", "a", "c", "k", "e", "n", "d", "." >>

VARIABLES input, messages, isLoading, pendingUpdates, calls, isOpen,
          nAccepted, lastEvent

vars ==
  << input, messages, isLoading, pendingUpdates, calls, isOpen,
     nAccepted, lastEvent >>

----
\* handleSend, up to the await

AcceptsNoGate(inp, loading) == Trim(inp) # <<>>

AcceptsNoTrim(inp, loading) == ~ (inp = <<>> \/ loading)

\* The negation of the early return: if (!input.trim() || isLoading) return
Accepts(inp, loading) == ~ (Trim(inp) = <<>> \/ loading)

UserMessageTrimmed(text) ==
  [role |-> "user", content |-> Str(Trim(text)), logs |-> Undefined,
   isLoading |-> FALSE]

\* userMsg; an omitted isLoading is FALSE, omitted logs are undefined
UserMessage(text) ==
  [role |-> "user", content |-> Str(text), logs |-> Undefined,
   isLoading |-> FALSE]

PlaceholderNotPending ==
  [role |-> "assistant", content |-> Str(<<>>), logs |-> Undefined,
   isLoading |-> FALSE]

Placeholder ==
  [role |-> "assistant", content |-> Str(<<>>), logs |-> Undefined,
   isLoading |-> TRUE]

\* prev => [...prev, m]
AppendMessage(prev, m) == Append(prev, m)

\* sendMessage(message): one POST, outstanding until it settles
SendMessage(cs, message) ==
  Append(cs, [message |-> message, status |-> "pending", data |-> NoData])

----
\* handleSend, after the await

SuccessMessageNoLogs(data) ==
  [role |-> "assistant", content |-> data.response, logs |-> Undefined,
   isLoading |-> FALSE]

\* { role: 'assistant', content: data.response, logs: data.logs }
SuccessMessage(data) ==
  [role |-> "assistant", content |-> data.response, logs |-> data.logs,
   isLoading |-> FALSE]

ErrorMessageEmptyLogs(error) ==
  [role |-> "assistant", content |-> Str(ErrorText), logs |-> Arr(<<>>),
   isLoading |-> FALSE]

\* The message of the catch block; the caught error is only logged.
ErrorMessage(error) ==
  [role |-> "assistant", content |-> Str(ErrorText), logs |-> Undefined,
   isLoading |-> FALSE]

ReplaceLastNoPop(prev, m) == Append(prev, m)

ReplaceLastShift(prev, m) ==
  Append(IF prev = <<>> THEN prev ELSE Tail(prev), m)

\* prev => { newMsgs = [...prev]; newMsgs.pop(); return [...newMsgs, m] }
ReplaceLast(prev, m) ==
  Append(IF prev = <<>> THEN prev ELSE SubSeq(prev, 1, Len(prev) - 1), m)

RECURSIVE ApplyUpdates(_, _)
\* The queued updaters of messages, run in the order they were queued.
ApplyUpdates(prev, updates) ==
  IF updates = <<>>
    THEN prev
    ELSE ApplyUpdates(ReplaceLast(prev, Head(updates)), Tail(updates))

SettleResolved(cs, k, data) ==
  [cs EXCEPT ![k] = [@ EXCEPT !.status = "resolved", !.data = data]]

SettleRejectedRetry(cs, k) ==
  Append([cs EXCEPT ![k] = [@ EXCEPT !.status = "rejected"]],
         [message |-> cs[k].message, status |-> "pending", data |-> NoData])

\* The catch block makes no further request.
SettleRejected(cs, k) ==
  [cs EXCEPT ![k] = [@ EXCEPT !.status = "rejected"]]

FinallyIsLoadingKept == TRUE

\* finally { setIsLoading(false) }
FinallyIsLoading == FALSE

----
\* Rendering

\* msg.role === 'assistant' && !msg.isLoading && msg.logs
MountsLogViewer(msg) ==
  msg.role = "assistant" /\ ~ msg.isLoading /\ Truthy(msg.logs)

LogViewerNullOnlyAbsent(logs) == ~ Truthy(logs)

\* LogViewer returns null: if (!logs || logs.length === 0) return null
LogViewerNull(logs) == ~ Truthy(logs) \/ Len(logs.v) = 0

\* The collapsible control of a message is on screen.
ShowsControl(msg) == MountsLogViewer(msg) /\ ~ LogViewerNull(msg.logs)

\* useState(false) of the LogViewer at each index, kept across a commit while
\* that LogViewer stays mounted.
CarryOpen(old, open, new) ==
  [i \in 1..Len(new) |->
     IF i \in DOMAIN old /\ MountsLogViewer(old[i]) /\ MountsLogViewer(new[i])
       THEN open[i]
       ELSE FALSE]

FlipAll(open, i) == [j \in DOMAIN open |-> ~ open[j]]

\* setIsOpen(!isOpen) of the LogViewer at index i
Flip(open, i) == [open EXCEPT ![i] = ~ @]

\* JSON.stringify(log, null, 2): the serialization of the whole record
Stringify(log) == << "json", log >>

NoOutput == [control |-> FALSE, label |-> 0, open |-> FALSE, blocks |-> <<>>]

\* What LogViewer renders: nothing, or one button labelled with logs.length
\* and, when open, one block per log, numbered idx + 1 for idx = 0, 1, ...
LogViewerOutput(logs, open) ==
  IF LogViewerNull(logs)
    THEN NoOutput
    ELSE [control |-> TRUE,
          label |-> Len(logs.v),
          open |-> open,
          blocks |->
            IF open
              THEN [i \in 1..Len(logs.v) |->
                      [number |-> (i - 1) + 1, body |-> Stringify(logs.v[i])]]
              ELSE <<>>]

\* What is rendered below the bubble of msg.
TraceOutput(msg, open) ==
  IF MountsLogViewer(msg) THEN LogViewerOutput(msg.logs, open) ELSE NoOutput

\* <input disabled={isLoading}>
InputDisabled(loading) == loading

SubmitDisabledNoTrim(loading, inp) == loading \/ inp = <<>>

\* <button disabled={isLoading || !input.trim()}>
SubmitDisabled(loading, inp) == loading \/ Trim(inp) = <<>>

----
Init ==
  /\ input = <<>>
  /\ messages = <<>>
  /\ isLoading = FALSE
  /\ pendingUpdates = <<>>
  /\ calls = <<>>
  /\ isOpen = <<>>
  /\ nAccepted = 0
  /\ lastEvent = "other"

\* onChange={(e) => setInput(e.target.value)}
TypeInput(t) ==
  /\ input' = t
  /\ lastEvent' = "other"
  /\ UNCHANGED << messages, isLoading, pendingUpdates, calls, isOpen, nAccepted >>

\* A submit event that passes the early return.
HandleSendAccepted ==
  /\ Accepts(input, isLoading)
  /\ nAccepted < MaxSubmits
  /\ LET userMsg == UserMessage(input)
         next == AppendMessage(AppendMessage(messages, userMsg), Placeholder)
     IN /\ messages' = next
        /\ isOpen' = CarryOpen(messages, isOpen, next)
        /\ calls' = SendMessage(calls, userMsg.content)
  /\ input' = <<>>
  /\ isLoading' = TRUE
  /\ nAccepted' = nAccepted + 1
  /\ lastEvent' = "accepted"
  /\ UNCHANGED pendingUpdates

\* A submit event that returns early.
HandleSendRejected ==
  /\ ~ Accepts(input, isLoading)
  /\ lastEvent' = "rejected"
  /\ UNCHANGED << input, messages, isLoading, pendingUpdates, calls, isOpen,
                  nAccepted >>

\* The awaited call k resolves with body data: the try block continues and
\* the finally block runs.
Resolve(k, data) ==
  /\ calls[k].status = "pending"
  /\ calls' = SettleResolved(calls, k, data)
  /\ pendingUpdates' = Append(pendingUpdates, SuccessMessage(data))
  /\ lastEvent' = "other"
  /\ UNCHANGED << input, messages, isLoading, isOpen, nAccepted >>

\* The awaited call k rejects: the catch block and the finally block run.
Reject(k, error) ==
  /\ calls[k].status = "pending"
  /\ calls' = SettleRejected(calls, k)
  /\ pendingUpdates' = Append(pendingUpdates, ErrorMessage(error))
  /\ lastEvent' = "other"
  /\ UNCHANGED << input, messages, isLoading, isOpen, nAccepted >>

\* React commits the queued updaters and setIsLoading(false).
Render ==
  /\ pendingUpdates # <<>>
  /\ LET next == ApplyUpdates(messages, pendingUpdates)
     IN /\ messages' = next
        /\ isOpen' = CarryOpen(messages, isOpen, next)
  /\ isLoading' = FinallyIsLoading
  /\ pendingUpdates' = <<>>
  /\ lastEvent' = "other"
  /\ UNCHANGED << input, calls, nAccepted >>

\* onClick={() => setIsOpen(!isOpen)} of the LogViewer of message i
Toggle(i) ==
  /\ ShowsControl(messages[i])
  /\ isOpen' = Flip(isOpen, i)
  /\ lastEvent' = "other"
  /\ UNCHANGED << input, messages, isLoading, pendingUpdates, calls, nAccepted >>

Next ==
  \/ \E t \in Inputs : TypeInput(t)
  \/ HandleSendAccepted
  \/ HandleSendRejected
  \/ \E k \in DOMAIN calls : \E data \in Bodies : Resolve(k, data)
  \/ \E k \in DOMAIN calls : \E error \in Failures : Reject(k, error)
  \/ Render
  \/ \E i \in DOMAIN messages : Toggle(i)

Spec == Init /\ [][Next]_vars

\* React runs the render it has scheduled for queued updates.
FairSpec == Spec /\ WF_vars(Render)

\* The LogViewer on its own: a first answer, with any logs, is about to be
\* committed; then its control is toggled.
ViewInit ==
  \E logs \in AllLogs :
    LET text == << "a" >>
        data == [response |-> Str(<< "o", "k" >>), logs |-> logs]
    IN /\ input = <<>>
       /\ messages = << UserMessage(text), Placeholder >>
       /\ isLoading = TRUE
       /\ pendingUpdates = << SuccessMessage(data) >>
       /\ calls = SettleResolved(SendMessage(<<>>, Str(text)), 1, data)
       /\ isOpen = << FALSE, FALSE >>
       /\ nAccepted = 1
       /\ lastEvent = "other"

ViewNext ==
  \/ Render
  \/ \E i \in DOMAIN messages : Toggle(i)

ViewSpec == ViewInit /\ [][ViewNext]_vars

----
\* Properties

\* A step of handleSend: the only steps that record a submit event.
IsHandleSendStep == lastEvent' \in {"accepted", "rejected"}

PendingIndexes == {i \in DOMAIN messages : messages[i].isLoading}

OutstandingCalls == {k \in DOMAIN calls : calls[k].status = "pending"}

UserIndexes == {i \in DOMAIN messages : messages[i].role = "user"}

\* C1: in every reachable state at most one message of the conversation has
\* its pending flag (isLoading) set.
C1_AtMostOnePending == Cardinality(PendingIndexes) <= 1

\* A second cycle is pending after a finished first one, and a submit with
\* non-blank text has just been turned away.
C1_Witness ==
  /\ Len(messages) = 4
  /\ PendingIndexes = {4}
  /\ lastEvent = "rejected"
  /\ Trim(input) # <<>>

\* C2: in every reachable state the number of sendMessage calls dispatched
\* and not yet settled is 0 or 1.
C2_AtMostOneOutstanding == Cardinality(OutstandingCalls) <= 1

C2_Witness ==
  /\ Len(calls) = 2
  /\ OutstandingCalls = {2}
  /\ lastEvent = "rejected"
  /\ Trim(input) # <<>>

\* C3: a submit made while isLoading is true, whatever the input text, leaves
\* the message list and the dispatched calls unchanged; and text is sent only
\* by a submit accepted while isLoading is false, which sends the input of
\* that moment, so dropped text is never sent later on its own.
C3_SubmitWhileLoadingDropped ==
  [][ /\ (isLoading /\ IsHandleSendStep) =>
           (messages' = messages /\ calls' = calls /\ lastEvent' = "rejected")
      /\ (calls' # calls /\ Len(calls') >= Len(calls)
            /\ SubSeq(calls', 1, Len(calls)) = calls) =>
           /\ lastEvent' = "accepted"
           /\ ~ isLoading
           /\ calls' = Append(calls, [message |-> Str(input),
                                      status |-> "pending", data |-> NoData])
    ]_vars

C3_Witness ==
  /\ isLoading
  /\ lastEvent = "rejected"
  /\ Trim(input) # <<>>
  /\ Len(messages) = 2
  /\ Len(calls) = 1

\* C4: a submit of text that is non-empty after trimming, made while
\* isLoading is false, appends exactly a user message holding the text as
\* typed and then an empty pending assistant message, clears the input, sets
\* isLoading, and leaves its request outstanding with no completion processed.
C4_AcceptedSubmitAppendsTwo ==
  [][ (IsHandleSendStep /\ Trim(input) # <<>> /\ ~ isLoading) =>
        /\ messages' =
             messages \o
               << [role |-> "user", content |-> Str(input),
                   logs |-> Undefined, isLoading |-> FALSE],
                  [role |-> "assistant", content |-> Str(<<>>),
                   logs |-> Undefined, isLoading |-> TRUE] >>
        /\ input' = <<>>
        /\ isLoading'
        /\ pendingUpdates' = pendingUpdates
        /\ Len(calls') = Len(calls) + 1
        /\ calls'[Len(calls')].status = "pending"
    ]_vars

C4_Witness ==
  /\ lastEvent = "accepted"
  /\ Len(messages) = 2
  /\ messages[1].role = "user"
  /\ messages[1].content = Str(<< " ", "a", " " >>)
  /\ messages[2].isLoading
  /\ input = <<>>
  /\ isLoading

\* C5: a submit of empty or whitespace-only input changes nothing: message
\* list, isLoading, input and dispatched calls stay as they were.
C5_BlankSubmitNoOp ==
  [][ (IsHandleSendStep /\ Trim(input) = <<>>) =>
        /\ lastEvent' = "rejected"
        /\ UNCHANGED << messages, isLoading, input, calls, pendingUpdates,
                        nAccepted >>
    ]_vars

C5_Witness ==
  /\ lastEvent = "rejected"
  /\ ~ isLoading
  /\ input = << " ", " " >>
  /\ messages = <<>>
  /\ calls = <<>>

\* C6: when the call resolved with a body {response, logs}, the commit
\* replaces the pending placeholder, at its position, by an assistant message
\* with that response and those logs and no pending flag; the length stays
\* that reached by the two-message append, and isLoading becomes false.
C6_SuccessReplacesPlaceholder ==
  [][ ( /\ pendingUpdates # <<>>
        /\ pendingUpdates' = <<>>
        /\ calls # <<>>
        /\ calls[Len(calls)].status = "resolved"
        /\ IsChatResponse(calls[Len(calls)].data) ) =>
        LET n == Len(messages)
            d == calls[Len(calls)].data
        IN /\ n = 2 * nAccepted
           /\ messages[n].role = "assistant"
           /\ messages[n].isLoading
           /\ messages' =
                [messages EXCEPT ![n] =
                   [role |-> "assistant", content |-> d.response,
                    logs |-> d.logs, isLoading |-> FALSE]]
           /\ isLoading
           /\ ~ isLoading'
    ]_vars

C6_Witness ==
  /\ ~ isLoading
  /\ pendingUpdates = <<>>
  /\ Len(messages) = 2
  /\ Len(calls) = 1
  /\ calls[1].status = "resolved"
  /\ messages[2].content = Str(<< "o", "k" >>)
  /\ messages[2].logs = Arr(<< "s1", "s2" >>)
  /\ ~ messages[2].isLoading

\* C7: every failure takes the failure path: once a call that was rejected,
\* or that resolved with a body not of the shape {response, logs}, has been
\* committed, its placeholder holds the fixed error message, and no message
\* in the conversation has a content that is not a string.
C7_ShapeFailureTakesFailurePath ==
  /\ \A k \in DOMAIN calls :
       ( /\ \/ calls[k].status = "rejected"
            \/ calls[k].status = "resolved" /\ ~ IsChatResponse(calls[k].data)
         /\ pendingUpdates = <<>>
         /\ 2 * k <= Len(messages) ) =>
         messages[2 * k] =
           [role |-> "assistant", content |-> Str(ErrorText),
            logs |-> Undefined, isLoading |-> FALSE]
  /\ \A i \in DOMAIN messages : messages[i].content.t = "string"

\* C8: when the call was rejected, for whatever reason, the commit replaces
\* the pending placeholder, at its position, by the assistant message with
\* the fixed error text, no logs and no pending flag; no trace control is
\* rendered for it, the length is unchanged and isLoading becomes false.
C8_FailureReplacesPlaceholder ==
  [][ ( /\ pendingUpdates # <<>>
        /\ pendingUpdates' = <<>>
        /\ calls # <<>>
        /\ calls[Len(calls)].status = "rejected" ) =>
        LET n == Len(messages)
        IN /\ n = 2 * nAccepted
           /\ messages[n].role = "assistant"
           /\ messages[n].isLoading
           /\ messages' =
                [messages EXCEPT ![n] =
                   [role |-> "assistant", content |-> Str(ErrorText),
                    logs |-> Undefined, isLoading |-> FALSE]]
           /\ ~ MountsLogViewer(messages'[n])
           /\ ~ ShowsControl(messages'[n])
           /\ ~ isLoading'
    ]_vars

C8_Witness ==
  /\ ~ isLoading
  /\ pendingUpdates = <<>>
  /\ Len(messages) = 2
  /\ Len(calls) = 1
  /\ calls[1].status = "rejected"
  /\ messages[2].content = Str(ErrorText)
  /\ messages[2].logs = Undefined

\* C9: in every reachable state in which isLoading is false no message of the
\* conversation has the pending flag set.
C9_NoPendingWhenIdle == ~ isLoading => PendingIndexes = {}

C9_Witness ==
  /\ ~ isLoading
  /\ pendingUpdates = <<>>
  /\ nAccepted = 2
  /\ Len(messages) = 4
  /\ OutstandingCalls = {}

\* C10: in every reachable state the number of sendMessage calls made equals
\* the number of accepted submits and the number of user messages, so no
\* request is ever repeated for a submit.
C10_OneCallPerSubmit ==
  /\ Len(calls) = nAccepted
  /\ Cardinality(UserIndexes) = nAccepted

C10_Witness ==
  /\ nAccepted = 2
  /\ Len(calls) = 2
  /\ calls[1].status = "rejected"
  /\ calls[2].status = "pending"

ResultOf(call) ==
  IF call.status = "resolved"
    THEN [role |-> "assistant", content |-> call.data.response,
          logs |-> call.data.logs, isLoading |-> FALSE]
    ELSE [role |-> "assistant", content |-> Str(ErrorText),
          logs |-> Undefined, isLoading |-> FALSE]

\* The result of call k is in the conversation.
Committed(k) ==
  calls[k].status # "pending" /\ (k < Len(calls) \/ pendingUpdates = <<>>)

\* C12: the k-th accepted submit has its user message at position 2k-1 and its
\* assistant slot at position 2k; the slot holds the pending placeholder
\* until the result of the k-th request is committed and that result after.
C12_ResultInOwnSlot ==
  /\ Len(messages) = 2 * Len(calls)
  /\ \A k \in DOMAIN calls :
       /\ messages[2 * k - 1].role = "user"
       /\ messages[2 * k - 1].content = calls[k].message
       /\ messages[2 * k] =
            IF Committed(k)
              THEN ResultOf(calls[k])
              ELSE [role |-> "assistant", content |-> Str(<<>>),
                    logs |-> Undefined, isLoading |-> TRUE]

C12_Witness ==
  /\ Len(calls) = 2
  /\ calls[1].status = "rejected"
  /\ calls[2].status = "resolved"
  /\ pendingUpdates = <<>>
  /\ messages[2].content = Str(ErrorText)
  /\ messages[4].content = Str(<< "o", "k" >>)

\* C13: every step keeps every message in place, leaves every message that
\* is not pending exactly as it was, and changes a pending message only into
\* an assistant message that is not pending; so a user message never changes
\* and an assistant message changes once.
C13_AppendOnlyButPlaceholder ==
  [][ /\ Len(messages') >= Len(messages)
      /\ \A i \in DOMAIN messages :
           /\ ~ messages[i].isLoading => messages'[i] = messages[i]
           /\ messages[i].role = "user" => ~ messages[i].isLoading
           /\ (messages[i].isLoading /\ messages'[i] # messages[i]) =>
                /\ messages'[i].role = "assistant"
                /\ ~ messages'[i].isLoading
    ]_vars

C13_Witness ==
  /\ Len(messages) = 4
  /\ PendingIndexes = {}
  /\ pendingUpdates = <<>>
  /\ messages[2].content = Str(<< "o", "k" >>)
  /\ messages[4].content = Str(ErrorText)

\* C14: isLoading goes back to false, and the pending placeholder goes away,
\* only in the commit of the updates of the completed request, no request
\* being outstanding then; and while a request stays outstanding isLoading
\* stays true and the placeholder stays pending.
C14_NoCancelNoTimeout ==
  [][ /\ ((isLoading /\ ~ isLoading') \/ (PendingIndexes # PendingIndexes'
                                          /\ PendingIndexes # {})) =>
           /\ OutstandingCalls = {}
           /\ calls' = calls
           /\ calls[Len(calls)].status \in {"resolved", "rejected"}
           /\ pendingUpdates # <<>>
           /\ pendingUpdates' = <<>>
      /\ (OutstandingCalls # {} /\ OutstandingCalls' # {}) =>
           /\ isLoading /\ isLoading'
           /\ PendingIndexes' = PendingIndexes
           /\ PendingIndexes # {}
    ]_vars

\* A second request is outstanding while text is typed and an earlier trace
\* has been opened.
C14_Witness ==
  /\ Len(calls) = 2
  /\ OutstandingCalls = {2}
  /\ isLoading
  /\ lastEvent = "other"
  /\ input = << "a" >>
  /\ isOpen[2]
  /\ messages[4].isLoading

\* C15: an absent or empty steps shows no control; non-empty steps show one
\* control labelled with their number, collapsed when first rendered, and
\* when expanded exactly one block per step, numbered 1, 2, ... in the order
\* of the steps, block i showing the serialization of step i.
C15_PresentSteps ==
  /\ [] ( pendingUpdates = <<>> =>
            LET logs == messages[2].logs
                open == isOpen[2]
                out == TraceOutput(messages[2], open)
            IN IF logs.t # "array" \/ Len(logs.v) = 0
                 THEN ~ out.control /\ out.blocks = <<>>
                 ELSE /\ out.control
                      /\ out.label = Len(logs.v)
                      /\ out.open = open
                      /\ ~ open => out.blocks = <<>>
                      /\ open =>
                           /\ Len(out.blocks) = Len(logs.v)
                           /\ \A i \in 1..Len(logs.v) :
                                /\ out.blocks[i].number = i
                                /\ out.blocks[i].body = << "json", logs.v[i] >> )
  /\ [][ (pendingUpdates # <<>> /\ pendingUpdates' = <<>>) =>
           /\ ~ isOpen'[2]
           /\ TraceOutput(messages'[2], isOpen'[2]).blocks = <<>>
       ]_vars

\* A trace of three steps is expanded.
C15_Witness ==
  /\ pendingUpdates = <<>>
  /\ messages[2].logs.t = "array"
  /\ Len(messages[2].logs.v) = MaxSteps
  /\ messages[2].logs.v[1] # messages[2].logs.v[2]
  /\ isOpen[2]

\* C16: the control of every message that shows one can be toggled, also
\* while a request is in flight; a toggle flips the flag of that one control
\* and leaves the conversation with its steps, isLoading, the input, the
\* queued updates and the dispatched calls unchanged.
C16_ToggleLocal ==
  /\ [] ( \A i \in DOMAIN messages :
            ShowsControl(messages[i]) => ENABLED Toggle(i) )
  /\ [][ (isOpen' # isOpen /\ Len(isOpen') = Len(isOpen)) =>
           /\ \E i \in DOMAIN isOpen :
                /\ ShowsControl(messages[i])
                /\ isOpen' = [isOpen EXCEPT ![i] = ~ isOpen[i]]
           /\ UNCHANGED << messages, isLoading, input, calls, pendingUpdates,
                           nAccepted >>
       ]_vars

\* A trace is open while a later request is pending.
C16_Witness ==
  /\ Len(messages) = 4
  /\ isLoading
  /\ OutstandingCalls = {2}
  /\ ShowsControl(messages[2])
  /\ isOpen[2]
  /\ input = << " " >>

\* A request is in flight: dispatched, and the updates of its completion are
\* not yet committed.
InFlight == OutstandingCalls # {} \/ pendingUpdates # <<>>

\* C17: the input field is disabled exactly while a request is in flight, and
\* the submit control is disabled whenever the input is empty or
\* whitespace-only or a request is in flight.
C17_DisabledControls ==
  /\ InputDisabled(isLoading) <=> InFlight
  /\ (Trim(input) = <<>> \/ InFlight) => SubmitDisabled(isLoading, input)

\* Whitespace-only input after a finished request: the field is enabled, the
\* submit control is not.
C17_Witness ==
  /\ ~ InFlight
  /\ Len(messages) = 2
  /\ input = << " ", " " >>
  /\ ~ InputDisabled(isLoading)
  /\ SubmitDisabled(isLoading, input)

C19_RolesAlternate ==
  /\ \A i \in DOMAIN messages :
       messages[i].role = IF i % 2 = 1 THEN "user" ELSE "assistant"
  /\ Len(messages) % 2 = 0
  /\ Cardinality(UserIndexes) = Cardinality(DOMAIN messages \ UserIndexes)

C19_Witness ==
  /\ Len(messages) = 4
  /\ messages[2].logs = Arr(<<>>)
  /\ messages[4].isLoading
  /\ lastEvent = "accepted"

\* C20: an accepted submit sends the input as it was at the submit, not
\* trimmed, which is the content of the user message it appends, and clears
\* the input in the same step; the text of call k stays the content of the
\* k-th user message.
C20_SentTextIsUserContent ==
  /\ [] ( \A k \in DOMAIN calls :
            /\ 2 * k - 1 \in DOMAIN messages
            /\ messages[2 * k - 1].content = calls[k].message )
  /\ [][ lastEvent' = "accepted" =>
           /\ calls'[Len(calls')].message = Str(input)
           /\ messages'[Len(messages') - 1].content = Str(input)
           /\ Len(calls') = Len(calls) + 1
           /\ input' = <<>>
       ]_vars

C20_Witness ==
  /\ Len(calls) = 2
  /\ calls[1].message = Str(<< "a" >>)
  /\ calls[2].message = Str(<< " ", "a", " " >>)
  /\ messages[3].content = Str(<< " ", "a", " " >>)
  /\ lastEvent = "accepted"
  /\ input = <<>>

====
